---- MODULE Spec2Model ----
(***************************************************************************)
(* The reactive attribute manager of src/src/compact-core.ts               *)
(* (AttributeManager and its helpers), as a state machine.                 *)
(*                                                                         *)
(* The manager keeps, per attribute key, three Fusion Value cells and one  *)
(* Fusion Computed cell (the clamped total), and one Observer per total    *)
(* whose onChange callback calls the subclass hooks.  Fusion's cells are   *)
(* modelled by what they do: Value.set stores and propagates only when the *)
(* new value differs from the stored one, a Computed caches its result and *)
(* tells its dependents only when the recomputed result differs, and an    *)
(* Observer runs its onChange callbacks synchronously.                     *)
(*                                                                         *)
(* The plain-data helpers of src/src/shared/attribute-utilities.ts and of  *)
(* compact-core.ts are modelled next to it: the pure functions under the   *)
(* specification SpecFn, and the functions that build and update state     *)
(* objects, over a heap of objects, under the specification SpecState.     *)
(***************************************************************************)
EXTENDS Integers, Sequences, FiniteSets, TLC

(***************************************************************************)
(* Bounds of the model.                                                    *)
(***************************************************************************)
\* number of API calls explored on one manager
MaxOps == 2

\* number of helper calls and caller assignments explored on one heap
MaxSteps == 4

(***************************************************************************)
(* Program constants.                                                      *)
(***************************************************************************)
ATTRIBUTE_KEYS == <<"vitality", "strength", "agility", "intellect", "luck">>

Keys == {ATTRIBUTE_KEYS[i] : i \in 1..Len(ATTRIBUTE_KEYS)}

Fields == {"baseValue", "equipmentBonus", "effectBonus"}

(***************************************************************************)
(* State.                                                                  *)
(***************************************************************************)
VARIABLES
    config,       \* this.config: initialValues, autoPersist, maxValue, minValue
    policy,       \* which validate() the concrete subclass supplies
    values,       \* states[k].values: the three Value cells of every key
    totalValue,   \* states[k].totalValue: the cached result of the Computed
    prev,         \* the `prev` captured by the onChange closure of every key
    observers,    \* this.observers: the array of Observer objects
    fired,        \* hook invocations made during the last call, in order
    lastCall,     \* the last API call: operation, arguments, return value
    pre,          \* the cells, totals and prev as they were before that call
    lastNew,      \* per key, the new value the hook was last given (history)
    nCalls,       \* number of API calls made so far
    heap,         \* the objects the helpers read and allocate, by reference
    playerState,  \* the caller's state variable: a reference, 0 before creation
    utilCall,     \* the last helper call: function, arguments, result
    preHeap,      \* the heap as it was before that call
    nSteps        \* number of helper calls and caller assignments so far

mgrVars == <<config, policy, values, totalValue, prev, observers, fired,
             lastCall, pre, lastNew, nCalls>>

utilVars == <<heap, playerState, utilCall, preHeap, nSteps>>

vars == <<config, policy, values, totalValue, prev, observers, fired,
          lastCall, pre, lastNew, nCalls, heap, playerState, utilCall, preHeap,
          nSteps>>

(***************************************************************************)
(* Pure helpers.                                                           *)
(***************************************************************************)
Min2(a, b) == IF a <= b THEN a ELSE b

Max2(a, b) == IF a >= b THEN a ELSE b

\* clamp(value, min, max) = math.max(min, math.min(max, value))
clamp(value, min, max) == Max2(min, Min2(max, value))

\* the concrete validate() of the subclass; the base class leaves it abstract
validate(key, value) ==
    CASE policy = "acceptAll" -> TRUE
      [] policy = "rejectAll" -> FALSE
      [] policy = "simple"    -> value >= config.minValue /\ value <= config.maxValue

\* the manager's mutable cells as one record
Mgr == [values |-> values, totalValue |-> totalValue, prev |-> prev,
        fired |-> <<>>]

\* the Computed's function as it would be if it left the effect bonus out
ComputeTotal_NoEffect(m, k) ==
    clamp(m.values[k].baseValue + m.values[k].equipmentBonus,
          config.minValue, config.maxValue)

\* the function the Computed of key k evaluates
ComputeTotal(m, k) ==
    LET total == m.values[k].baseValue + m.values[k].equipmentBonus
                     + m.values[k].effectBonus
    IN  clamp(total, config.minValue, config.maxValue)

\* the callback as it would be if it persisted whatever autoPersist says
ObserverCallback_AlwaysPersist(m, k) ==
    LET curr == m.totalValue[k]
        hook == <<"onAttributeChanged", k, m.prev[k], curr>>
    IN  [m EXCEPT !.prev[k] = curr,
                  !.fired = Append(Append(m.fired, hook), <<"persistState">>)]

\* the callback as it would be if it never stored curr into prev
ObserverCallback_StalePrev(m, k) ==
    LET curr == m.totalValue[k]
        hook == <<"onAttributeChanged", k, m.prev[k], curr>>
        f1   == Append(m.fired, hook)
        f2   == IF config.autoPersist THEN Append(f1, <<"persistState">>) ELSE f1
    IN  [m EXCEPT !.fired = f2]

\* the onChange callback registered on the Observer of key k
ObserverCallback(m, k) ==
    LET curr == m.totalValue[k]
        hook == <<"onAttributeChanged", k, m.prev[k], curr>>
        f1   == Append(m.fired, hook)
        f2   == IF config.autoPersist THEN Append(f1, <<"persistState">>) ELSE f1
    IN  [m EXCEPT !.prev[k] = curr, !.fired = f2]

\* the Computed as it would be if it told its Observer on every recomputation
ComputedUpdate_AlwaysNotify(m, k) ==
    ObserverCallback([m EXCEPT !.totalValue[k] = ComputeTotal(m, k)], k)

\* the Computed of key k is told that one of its Value cells changed: it
\* recomputes, and its Observer runs only when the result differs
ComputedUpdate(m, k) ==
    LET newTotal == ComputeTotal(m, k)
    IN  IF newTotal = m.totalValue[k]
        THEN m
        ELSE ObserverCallback([m EXCEPT !.totalValue[k] = newTotal], k)

\* Value.set as it would be if the write did not reach the Computed
ValueSet_NoUpdate(m, k, field, v) ==
    [m EXCEPT !.values[k][field] = v]

\* Value.set(v) on the cell `field` of key k: nothing happens when the cell
\* already holds v, otherwise the cell is written and its Computed updated
ValueSet(m, k, field, v) ==
    IF m.values[k][field] = v
    THEN m
    ELSE ComputedUpdate([m EXCEPT !.values[k][field] = v], k)

(***************************************************************************)
(* The public API, as functions from a manager state to the new manager    *)
(* state and the return value.                                             *)
(***************************************************************************)
getValue(k) == totalValue[k]

\* setBase as it would be if the cell were written before the gate is asked
setBase_WriteFirst(m, k, v) ==
    [m |-> ValueSet(m, k, "baseValue", clamp(v, config.minValue, config.maxValue)),
     ret |-> validate(k, v)]

\* setBase as it would be if it stored the accepted value as given
setBase_Unclamped(m, k, v) ==
    IF ~validate(k, v)
    THEN [m |-> m, ret |-> FALSE]
    ELSE [m |-> ValueSet(m, k, "baseValue", v), ret |-> TRUE]

setBase(m, k, v) ==
    IF ~validate(k, v)
    THEN [m |-> m, ret |-> FALSE]
    ELSE [m |-> ValueSet(m, k, "baseValue",
                         clamp(v, config.minValue, config.maxValue)),
          ret |-> TRUE]

\* setEquipment as it would be if it clamped the bonus the way setBase
\* clamps the base value
setEquipment_Clamped(m, k, v) ==
    IF ~validate(k, v)
    THEN [m |-> m, ret |-> FALSE]
    ELSE [m |-> ValueSet(m, k, "equipmentBonus",
                         clamp(v, config.minValue, config.maxValue)),
          ret |-> TRUE]

setEquipment(m, k, v) ==
    IF ~validate(k, v)
    THEN [m |-> m, ret |-> FALSE]
    ELSE [m |-> ValueSet(m, k, "equipmentBonus", v), ret |-> TRUE]

\* Value.set(v) on the cell `field` of each key of keys in turn
RECURSIVE ValueSetEach(_, _, _, _)
ValueSetEach(m, keys, field, v) ==
    IF keys = <<>>
    THEN m
    ELSE ValueSetEach(ValueSet(m, Head(keys), field, v), Tail(keys), field, v)

\* setEffect as it would be if the five keys shared one effect cell
setEffect_SharedCell(m, k, v) ==
    IF ~validate(k, v)
    THEN [m |-> m, ret |-> FALSE]
    ELSE [m |-> ValueSetEach(m, ATTRIBUTE_KEYS, "effectBonus", v), ret |-> TRUE]

setEffect(m, k, v) ==
    IF ~validate(k, v)
    THEN [m |-> m, ret |-> FALSE]
    ELSE [m |-> ValueSet(m, k, "effectBonus", v), ret |-> TRUE]

\* modify as it would be if it started from the derived total
modify_FromTotal(m, k, delta) ==
    LET current == m.totalValue[k]
    IN  setBase(m, k, current + delta)

modify(m, k, delta) ==
    LET current == m.values[k].baseValue
    IN  setBase(m, k, current + delta)

exportData(m) == [k \in Keys |-> m.values[k]]

\* `x ?? 0` on a field of a loaded record that may lack the field
Coalesce(rec, field) == IF field \in DOMAIN rec THEN rec[field] ELSE 0

\* the loop body as it would be if a rejected field abandoned the key
loadKey_StopAtRejection(m, k, vals) ==
    LET r1 == setBase(m, k, Coalesce(vals, "baseValue"))
        r2 == setEquipment(r1.m, k, Coalesce(vals, "equipmentBonus"))
    IN  IF ~r1.ret THEN m
        ELSE IF ~r2.ret THEN r1.m
        ELSE setEffect(r2.m, k, Coalesce(vals, "effectBonus")).m

\* the body of loadData's loop for one key
loadKey(m, k, vals) ==
    LET m1 == setBase(m, k, Coalesce(vals, "baseValue")).m
        m2 == setEquipment(m1, k, Coalesce(vals, "equipmentBonus")).m
    IN  setEffect(m2, k, Coalesce(vals, "effectBonus")).m

\* loadData as it would be if it replaced the whole state: after the keys of
\* data, every other key is loaded from an empty record
RECURSIVE loadData_ReplaceAll(_, _, _)
loadData_ReplaceAll(m, data, order) ==
    LET rest == SelectSeq(ATTRIBUTE_KEYS, LAMBDA k : k \notin DOMAIN data)
        step(mm, k) == loadKey(mm, k, IF k \in DOMAIN data THEN data[k] ELSE <<>>)
    IN  IF order # <<>>
        THEN loadData_ReplaceAll(step(m, Head(order)), data, Tail(order))
        ELSE IF rest = <<>> THEN m
        ELSE LET all == [k \in Keys |-> IF k \in DOMAIN data THEN data[k] ELSE <<>>]
             IN  loadData_ReplaceAll(m, all, rest)

\* loadData: pairs(data) visits the keys of data in an order the runtime
\* chooses; `order` is that order
RECURSIVE loadData(_, _, _)
loadData(m, data, order) ==
    IF order = <<>>
    THEN m
    ELSE loadData(loadKey(m, Head(order), data[Head(order)]), data, Tail(order))

(***************************************************************************)
(* Inputs.                                                                 *)
(***************************************************************************)
\* the keys the explored calls address; the other three keys stay as
\* constructed
CallKeys == {"vitality", "strength"}

\* the numbers passed to the setters: below every explored range, zero, inside,
\* the explored maxValue itself, and above it (5 is also the bonus of the
\* documented scenario)
ArgValues == {-1, 0, 1, 2, 5}

Deltas == {-1, 0, 1}

\* the records a loaded mapping may hold for one key: a complete one, and
\* one that lacks two of the three fields
LoadRecords ==
    {[baseValue |-> 5, equipmentBonus |-> -1, effectBonus |-> 1],
     [f \in {"equipmentBonus"} |-> 1]}

LoadInputs == UNION {[S -> LoadRecords] : S \in SUBSET CallKeys}

\* the keys of S in the order of ATTRIBUTE_KEYS, from position i on
RECURSIVE Ascending(_, _)
Ascending(S, i) ==
    IF i > Len(ATTRIBUTE_KEYS)
    THEN <<>>
    ELSE (IF ATTRIBUTE_KEYS[i] \in S THEN <<ATTRIBUTE_KEYS[i]>> ELSE <<>>)
             \o Ascending(S, i + 1)

Reverse(seq) == [i \in 1..Len(seq) |-> seq[Len(seq) + 1 - i]]

\* the orders in which pairs() may visit the key set S.  The runtime fixes
\* none; the calls made for different keys touch disjoint cells, so the order
\* only permutes the hook calls of different keys, and two orders are explored
Orders(S) == {Ascending(S, 1), Reverse(Ascending(S, 1))}

NoData == [k \in {} |-> 0]

NoCall == [op |-> "new", key |-> "none", value |-> 0, data |-> NoData,
           ret |-> TRUE]

(***************************************************************************)
(* The helpers' objects.  A reference is a position in heap.               *)
(***************************************************************************)
\* DefaultAttributeValues of attribute-constants.ts, the one object that
\* exists before any helper is called
DefaultAttributeValues ==
    [baseValue |-> 10, equipmentBonus |-> 2, effectBonus |-> 2]

DefaultRef == 1

InitialHeap == <<DefaultAttributeValues>>

NoUtilCall == [fn |-> "none", args |-> <<>>, result |-> 0]

\* the helpers' variables while no helper has been called
UtilIdle ==
    /\ heap = InitialHeap
    /\ playerState = 0
    /\ utilCall = NoUtilCall
    /\ preHeap = InitialHeap
    /\ nSteps = 0

(***************************************************************************)
(* Construction.                                                           *)
(***************************************************************************)
\* the configuration objects a caller passes to the constructor: every field
\* is optional.  The last one is the documented scenario (vitality 10 in
\* the range 0..100)
CallerConfigs ==
    {[f \in S |-> full[f]] :
        S \in SUBSET {"initialValues", "autoPersist", "maxValue", "minValue"},
        full \in {[initialValues |-> [k \in {ATTRIBUTE_KEYS[1]} |-> v],
                   autoPersist |-> TRUE, maxValue |-> 2, minValue |-> 3] :
                      v \in {1, 5}}}
    \cup {[initialValues |-> [k \in {ATTRIBUTE_KEYS[1]} |-> 10],
           minValue |-> 0, maxValue |-> 100]}

\* the defaults the constructor spreads the caller's configuration over
DefaultConfig ==
    [initialValues |-> NoData, autoPersist |-> FALSE, maxValue |-> 9999,
     minValue |-> 0]

\* { ...defaults, ...config }
MergeConfig(c) ==
    [f \in DOMAIN DefaultConfig |-> IF f \in DOMAIN c THEN c[f] ELSE DefaultConfig[f]]

Policies == {"acceptAll", "rejectAll", "simple"}

\* config.initialValues[key] ?? 0
InitialOf(cfg, k) ==
    IF k \in DOMAIN cfg.initialValues THEN cfg.initialValues[k] ELSE 0

\* initializeStates: the cells of every key, and the first evaluation of the
\* Computed
initializeStates(cfg) ==
    [k \in Keys |-> [baseValue |-> InitialOf(cfg, k), equipmentBonus |-> 0,
                     effectBonus |-> 0]]

Init ==
    /\ config \in {MergeConfig(c) : c \in CallerConfigs}
    /\ policy \in Policies
    /\ values = initializeStates(config)
    \* a Computed evaluates its function once when it is created
    /\ totalValue = [k \in Keys |->
                        ComputeTotal([values |-> initializeStates(config)], k)]
    \* setupObservers: prev = state.totalValue.get(), one Observer per key
    /\ prev = totalValue
    /\ observers = ATTRIBUTE_KEYS
    /\ fired = <<>>
    /\ lastCall = NoCall
    \* no hook has run: the history starts at the totals of construction
    /\ lastNew = totalValue
    /\ pre = [values |-> values, totalValue |-> totalValue, prev |-> prev,
              lastNew |-> lastNew]
    /\ nCalls = 0
    /\ UtilIdle

(***************************************************************************)
(* Actions: one per public method.                                         *)
(***************************************************************************)
Snapshot == [values |-> values, totalValue |-> totalValue, prev |-> prev,
             lastNew |-> lastNew]

\* the new value of the last onAttributeChanged(k, ...) among hooks, or
\* before when there is none
LastNotified(hooks, k, before) ==
    LET hs == SelectSeq(hooks, LAMBDA e : e[1] = "onAttributeChanged" /\ e[2] = k)
    IN  IF hs = <<>> THEN before ELSE hs[Len(hs)][4]

\* the effect of a call that leaves the manager in state m
Commit(m, call) ==
    /\ values' = m.values
    /\ totalValue' = m.totalValue
    /\ prev' = m.prev
    /\ fired' = m.fired
    /\ lastNew' = [k \in Keys |-> LastNotified(m.fired, k, lastNew[k])]
    /\ lastCall' = call
    /\ pre' = Snapshot
    /\ nCalls' = nCalls + 1
    /\ UNCHANGED <<config, policy, observers>>
    /\ UNCHANGED utilVars

SetBase ==
    /\ nCalls < MaxOps
    /\ \E k \in CallKeys, v \in ArgValues :
          LET r == setBase(Mgr, k, v)
          IN  Commit(r.m, [op |-> "setBase", key |-> k, value |-> v,
                           data |-> NoData, ret |-> r.ret])

SetEquipment ==
    /\ nCalls < MaxOps
    /\ \E k \in CallKeys, v \in ArgValues :
          LET r == setEquipment(Mgr, k, v)
          IN  Commit(r.m, [op |-> "setEquipment", key |-> k, value |-> v,
                           data |-> NoData, ret |-> r.ret])

SetEffect ==
    /\ nCalls < MaxOps
    /\ \E k \in CallKeys, v \in ArgValues :
          LET r == setEffect(Mgr, k, v)
          IN  Commit(r.m, [op |-> "setEffect", key |-> k, value |-> v,
                           data |-> NoData, ret |-> r.ret])

Modify ==
    /\ nCalls < MaxOps
    /\ \E k \in CallKeys, d \in Deltas :
          LET r == modify(Mgr, k, d)
          IN  Commit(r.m, [op |-> "modify", key |-> k, value |-> d,
                           data |-> NoData, ret |-> r.ret])

LoadData ==
    /\ nCalls < MaxOps
    /\ \E data \in LoadInputs \cup {exportData(Mgr)} :
          \E order \in Orders(DOMAIN data) :
              Commit(loadData(Mgr, data, order),
                     [op |-> "loadData", key |-> "none", value |-> 0,
                      data |-> data, ret |-> TRUE])

\* destroy: the forEach does nothing and the array is cleared; the onChange
\* connections made in setupObservers are not touched
Destroy ==
    /\ nCalls < MaxOps
    /\ observers' = <<>>
    /\ fired' = <<>>
    /\ lastCall' = [op |-> "destroy", key |-> "none", value |-> 0,
                    data |-> NoData, ret |-> TRUE]
    /\ pre' = Snapshot
    /\ nCalls' = nCalls + 1
    /\ UNCHANGED <<config, policy, values, totalValue, prev, lastNew>>
    /\ UNCHANGED utilVars

Next ==
    \/ SetBase
    \/ SetEquipment
    \/ SetEffect
    \/ Modify
    \/ LoadData
    \/ Destroy

Spec == Init /\ [][Next]_vars

(***************************************************************************)
(* The pure helpers.  A call passes its arguments as a sequence, so that   *)
(* trailing arguments can be left out and take the declared defaults.      *)
(***************************************************************************)
\* clampAttributeValue as it would be if the upper bound were not applied
clampAttributeValue_NoUpper(args) ==
    LET value == args[1]
        min == IF Len(args) >= 2 THEN args[2] ELSE 0
    IN  Max2(min, value)

\* clampAttributeValue as it would be with the compact clamp's default maximum
clampAttributeValue_CompactDefault(args) ==
    LET value == args[1]
        min == IF Len(args) >= 2 THEN args[2] ELSE 0
        max == IF Len(args) >= 3 THEN args[3] ELSE 9999
    IN  Max2(min, Min2(max, value))

\* clampAttributeValue(value, min = 0, max = 999) of attribute-utilities.ts
clampAttributeValue(args) ==
    LET value == args[1]
        min == IF Len(args) >= 2 THEN args[2] ELSE 0
        max == IF Len(args) >= 3 THEN args[3] ELSE 999
    IN  Max2(min, Min2(max, value))

\* the compact clamp as it would be if the lower bound were not applied
clampCall_NoLower(args) ==
    LET value == args[1]
        max == IF Len(args) >= 3 THEN args[3] ELSE 9999
    IN  Min2(max, value)

\* clamp(value, min = 0, max = 9999) of compact-core.ts, called with one to
\* three arguments
clampCall(args) ==
    LET value == args[1]
        min == IF Len(args) >= 2 THEN args[2] ELSE 0
        max == IF Len(args) >= 3 THEN args[3] ELSE 9999
    IN  clamp(value, min, max)

\* isValidAttributeKey as it would be if one comparison were missing
isValidAttributeKey_NoLuck(key) ==
    key = "vitality" \/ key = "strength" \/ key = "agility" \/ key = "intellect"

isValidAttributeKey(key) ==
    key = "vitality" \/ key = "strength" \/ key = "agility"
        \/ key = "intellect" \/ key = "luck"

\* ATTRIBUTE_KEYS.includes(key)
isValidKey(key) == \E i \in 1..Len(ATTRIBUTE_KEYS) : ATTRIBUTE_KEYS[i] = key

\* calculateTotalAttributeValue as it would be if it clamped like the manager
calculateTotalAttributeValue_Clamped(v) ==
    clampAttributeValue(<<v.baseValue + v.equipmentBonus + v.effectBonus>>)

calculateTotalAttributeValue(v) ==
    v.baseValue + v.equipmentBonus + v.effectBonus

calculateTotal(v) == v.baseValue + v.equipmentBonus + v.effectBonus

(***************************************************************************)
(* Inputs of the pure helpers.                                             *)
(***************************************************************************)
\* the values clamped: below zero, inside and on the bounds of the explored
\* ranges, and above each default maximum
ClampValues == {-5, 0, 3, 999, 1050, 9999, 10000}

\* the explicit (min, max) pairs, the last one inverted
ClampRanges == {<<0, 999>>, <<2, 4>>, <<3, 3>>, <<4, 2>>}

ClampArgs ==
    {<<x>> : x \in ClampValues}
    \cup {<<x, r[1]>> : x \in ClampValues, r \in ClampRanges}
    \cup {<<x, r[1], r[2]>> : x \in ClampValues, r \in ClampRanges}

\* the strings tested for being a key: the five keys, and near misses
KeyCandidates ==
    Keys \cup {"", "Vitality", "vitality ", "luc", "lucky", "speed", "totalValue"}

\* the value records totalled
TotalInputs == [Fields -> {-3, 0, 10, 5000}]

\* the manager's variables while only helpers are called
ManagerIdle ==
    /\ config = MergeConfig(NoData)
    /\ policy = "simple"
    /\ values = initializeStates(config)
    /\ totalValue = [k \in Keys |-> 0]
    /\ prev = totalValue
    /\ observers = ATTRIBUTE_KEYS
    /\ fired = <<>>
    /\ lastCall = NoCall
    \* no hook has run: the history starts at the totals of construction
    /\ lastNew = totalValue
    /\ pre = [values |-> values, totalValue |-> totalValue, prev |-> prev,
              lastNew |-> lastNew]
    /\ nCalls = 0

InitFn == ManagerIdle /\ UtilIdle

\* a call of a pure helper: nothing but the record of the call changes
PureCall(fn, args, result) ==
    /\ utilCall' = [fn |-> fn, args |-> args, result |-> result]
    /\ UNCHANGED <<heap, playerState, preHeap, nSteps>>
    /\ UNCHANGED mgrVars

CallClampAttributeValue ==
    \E args \in ClampArgs :
        PureCall("clampAttributeValue", args, clampAttributeValue(args))

CallClamp ==
    \E args \in ClampArgs : PureCall("clamp", args, clampCall(args))

CallIsValidAttributeKey ==
    \E key \in KeyCandidates :
        PureCall("isValidAttributeKey", <<key>>, isValidAttributeKey(key))

CallIsValidKey ==
    \E key \in KeyCandidates : PureCall("isValidKey", <<key>>, isValidKey(key))

CallCalculateTotalAttributeValue ==
    \E v \in TotalInputs :
        PureCall("calculateTotalAttributeValue", <<v>>,
                 calculateTotalAttributeValue(v))

CallCalculateTotal ==
    \E v \in TotalInputs : PureCall("calculateTotal", <<v>>, calculateTotal(v))

NextFn ==
    \/ CallClampAttributeValue
    \/ CallClamp
    \/ CallIsValidAttributeKey
    \/ CallIsValidKey
    \/ CallCalculateTotalAttributeValue
    \/ CallCalculateTotal

SpecFn == InitFn /\ [][NextFn]_vars

(***************************************************************************)
(* The helpers that build and update state objects.  Each takes the heap   *)
(* and returns the new heap and the reference of the object it returns.    *)
(***************************************************************************)
\* a new object: the heap grows by one position
Alloc(h, obj) == [heap |-> Append(h, obj), ref |-> Len(h) + 1]

\* the object literal { ...a, ...b }: the fields of b win
Spread(a, b) ==
    [f \in DOMAIN a \cup DOMAIN b |-> IF f \in DOMAIN b THEN b[f] ELSE a[f]]

\* the fields an optional argument spreads: none when it is left out
SpreadOf(opt) == IF opt = <<>> THEN NoData ELSE opt[1]

\* overrides?.[key] of an optional mapping
OverrideOf(opt, key) ==
    IF opt # <<>> /\ key \in DOMAIN opt[1] THEN <<opt[1][key]>> ELSE <<>>

\* createAttributeValues as it would be if it assigned the overrides into
\* the default record
createAttributeValues_IntoDefault(h, opt) ==
    [heap |-> [h EXCEPT ![DefaultRef] = Spread(@, SpreadOf(opt))],
     ref |-> DefaultRef]

createAttributeValues(h, opt) ==
    Alloc(h, Spread(h[DefaultRef], SpreadOf(opt)))

createValues(h, opt) ==
    Alloc(h, Spread([baseValue |-> 0, equipmentBonus |-> 0, effectBonus |-> 0],
                    SpreadOf(opt)))

\* createAttributeEntry as it would be if the total were taken from the
\* default record
createAttributeEntry_DefaultTotal(h, key, opt) ==
    LET v == createAttributeValues(h, opt)
    IN  Alloc(v.heap, [meta |-> key, values |-> v.ref,
                       totalValue |-> calculateTotalAttributeValue(h[DefaultRef])])

\* createAttributeEntry: meta is the catalog record of key, named by the key
createAttributeEntry(h, key, opt) ==
    LET v == createAttributeValues(h, opt)
    IN  Alloc(v.heap, [meta |-> key, values |-> v.ref,
                       totalValue |-> calculateTotalAttributeValue(v.heap[v.ref])])

\* the key list local to createAttributesState
attributeKeys == <<"vitality", "strength", "agility", "intellect", "luck">>

\* state[key] = entry on the object at sref
SetKey(h, sref, key, ref) ==
    [h EXCEPT ![sref] = [k \in DOMAIN @ \cup {key} |-> IF k = key THEN ref ELSE @[k]]]

\* the loop of createAttributesState from position i on
RECURSIVE createAttributesStateLoop(_, _, _, _)
createAttributesStateLoop(h, sref, opt, i) ==
    IF i > Len(attributeKeys)
    THEN h
    ELSE LET key == attributeKeys[i]
             e == createAttributeEntry(h, key, OverrideOf(opt, key))
         IN  createAttributesStateLoop(SetKey(e.heap, sref, key, e.ref),
                                       sref, opt, i + 1)

createAttributesState(h, opt) ==
    LET state == Alloc(h, NoData)
    IN  [heap |-> createAttributesStateLoop(state.heap, state.ref, opt, 1),
         ref |-> state.ref]

\* the loop of the compact createState from position i on
RECURSIVE createStateLoop(_, _, _, _)
createStateLoop(h, sref, opt, i) ==
    IF i > Len(ATTRIBUTE_KEYS)
    THEN h
    ELSE LET key == ATTRIBUTE_KEYS[i]
             v == createValues(h, OverrideOf(opt, key))
             e == Alloc(v.heap, [meta |-> key, values |-> v.ref,
                                 totalValue |-> calculateTotal(v.heap[v.ref])])
         IN  createStateLoop(SetKey(e.heap, sref, key, e.ref), sref, opt, i + 1)

createState(h, opt) ==
    LET state == Alloc(h, NoData)
    IN  [heap |-> createStateLoop(state.heap, state.ref, opt, 1),
         ref |-> state.ref]

\* updateAttributeEntry as it would be if it kept the entry's old total
updateAttributeEntry_StaleTotal(h, currentState, key, newValues) ==
    LET entry == h[h[currentState][key]]
        v == Alloc(h, Spread(h[entry.values], newValues))
    IN  Alloc(v.heap, Spread(entry, [values |-> v.ref]))

\* updateAttributeEntry as it would be if it wrote into the entry it was given
updateAttributeEntry_InPlace(h, currentState, key, newValues) ==
    LET eref == h[currentState][key]
        entry == h[eref]
        updatedValues == Spread(h[entry.values], newValues)
    IN  [heap |-> [h EXCEPT ![entry.values] = updatedValues,
                            ![eref].totalValue =
                                calculateTotalAttributeValue(updatedValues)],
         ref |-> eref]

\* updateAttributeEntry as it would be if the new values replaced the entry's
\* values, fields left out falling back to the default record
updateAttributeEntry_ReplaceValues(h, currentState, key, newValues) ==
    LET entry == h[h[currentState][key]]
        v == Alloc(h, Spread(h[DefaultRef], newValues))
    IN  Alloc(v.heap,
              Spread(entry,
                     [values |-> v.ref,
                      totalValue |-> calculateTotalAttributeValue(v.heap[v.ref])]))

updateAttributeEntry(h, currentState, key, newValues) ==
    LET entry == h[h[currentState][key]]
        v == Alloc(h, Spread(h[entry.values], newValues))
    IN  Alloc(v.heap,
              Spread(entry,
                     [values |-> v.ref,
                      totalValue |-> calculateTotalAttributeValue(v.heap[v.ref])]))

(***************************************************************************)
(* Inputs of the state helpers.                                            *)
(***************************************************************************)
\* the optional overrides of createAttributeValues / createValues: left out,
\* empty, partial (the documented example), one negative field, complete
ValueOverrides ==
    {<<>>,
     <<NoData>>,
     <<[baseValue |-> 15, equipmentBonus |-> 3]>>,
     <<[f \in {"effectBonus"} |-> -4]>>,
     <<[baseValue |-> 1, equipmentBonus |-> 0, effectBonus |-> 0]>>}

\* the optional overrides of createAttributesState / createState: left out,
\* empty, one key with an empty record, one key, and the documented example
StateOverrides ==
    {<<>>,
     <<NoData>>,
     <<[k \in {"agility"} |-> NoData]>>,
     <<[k \in {"vitality"} |-> [f \in {"baseValue"} |-> 20]]>>,
     <<[vitality |-> [f \in {"baseValue"} |-> 20],
        strength |-> [baseValue |-> 15, equipmentBonus |-> 5],
        luck |-> [baseValue |-> 8, effectBonus |-> 3]]>>}

\* the partial values passed to updateAttributeEntry
PartialValues ==
    {NoData,
     [f \in {"baseValue"} |-> 12],
     [f \in {"equipmentBonus"} |-> 8],
     [baseValue |-> 1, equipmentBonus |-> 0, effectBonus |-> -4]}

InitState == ManagerIdle /\ UtilIdle

\* a helper call that leaves heap h and returns result
HeapCall(fn, args, r) ==
    /\ nSteps < MaxSteps
    /\ heap' = r.heap
    /\ utilCall' = [fn |-> fn, args |-> args, result |-> r.ref]
    /\ preHeap' = heap
    /\ nSteps' = nSteps + 1
    /\ UNCHANGED mgrVars

CallCreateAttributeValues ==
    /\ \E opt \in ValueOverrides :
          HeapCall("createAttributeValues", opt, createAttributeValues(heap, opt))
    /\ UNCHANGED playerState

CallCreateValues ==
    /\ \E opt \in ValueOverrides :
          HeapCall("createValues", opt, createValues(heap, opt))
    /\ UNCHANGED playerState

\* let playerState = createAttributesState(overrides)
CallCreateAttributesState ==
    /\ playerState = 0
    /\ \E opt \in StateOverrides :
          LET r == createAttributesState(heap, opt)
          IN  /\ HeapCall("createAttributesState", opt, r)
              /\ playerState' = r.ref

\* let playerState = createState(overrides)
CallCreateState ==
    /\ playerState = 0
    /\ \E opt \in StateOverrides :
          LET r == createState(heap, opt)
          IN  /\ HeapCall("createState", opt, r)
              /\ playerState' = r.ref

\* updateAttributeEntry(playerState, key, partial); the result is not yet
\* stored anywhere
CallUpdateAttributeEntry ==
    /\ playerState # 0
    /\ \E key \in CallKeys, partial \in PartialValues :
          HeapCall("updateAttributeEntry", <<playerState, key, partial>>,
                   updateAttributeEntry(heap, playerState, key, partial))
    /\ UNCHANGED playerState

\* playerState[key] = <the entry the last updateAttributeEntry returned>
AssignEntry ==
    /\ utilCall.fn = "updateAttributeEntry"
    /\ nSteps < MaxSteps
    /\ heap' = SetKey(heap, playerState, utilCall.args[2], utilCall.result)
    /\ utilCall' = [fn |-> "assign", args |-> <<utilCall.args[2]>>,
                     result |-> utilCall.result]
    /\ preHeap' = heap
    /\ nSteps' = nSteps + 1
    /\ UNCHANGED playerState
    /\ UNCHANGED mgrVars

NextState ==
    \/ CallCreateAttributeValues
    \/ CallCreateValues
    \/ CallCreateAttributesState
    \/ CallCreateState
    \/ CallUpdateAttributeEntry
    \/ AssignEntry

SpecState == InitState /\ [][NextState]_vars

(***************************************************************************)
(* Properties.  Each is stated over the state after a call: lastCall names *)
(* the call, pre holds the cells before it, fired the hooks it ran.        *)
(***************************************************************************)
Setters == {"setBase", "setEquipment", "setEffect"}

FieldOf(op) ==
    CASE op = "setBase"      -> "baseValue"
      [] op = "setEquipment" -> "equipmentBonus"
      [] op = "setEffect"    -> "effectBonus"
      [] op = "modify"       -> "baseValue"

\* the onAttributeChanged invocations among the hooks of the last call
ChangedHooks == SelectSeq(fired, LAMBDA e : e[1] = "onAttributeChanged")

\* the persistState invocations among the hooks of the last call
PersistHooks == SelectSeq(fired, LAMBDA e : e[1] = "persistState")

\* C1: a setter whose value validate rejects returns false, leaves every
\* cell and every derived total of every key as before, and runs no hook.
C1_RejectedSetterLeavesState ==
    (lastCall.op \in Setters /\ ~validate(lastCall.key, lastCall.value)) =>
        /\ lastCall.ret = FALSE
        /\ values = pre.values
        /\ totalValue = pre.totalValue
        /\ \A k \in Keys : getValue(k) = pre.totalValue[k]
        /\ fired = <<>>

\* a rejected setBase whose value differs from the one the cell holds
C1_Witness ==
    /\ lastCall.op = "setBase"
    /\ ~validate(lastCall.key, lastCall.value)
    /\ lastCall.ret = FALSE
    /\ pre.values[lastCall.key].baseValue
           # clamp(lastCall.value, config.minValue, config.maxValue)

\* C2: after a setter call on key k, onAttributeChanged has run exactly once,
\* with (k, previously observed total, new total), when the derived total of
\* k differs from the previously observed one, and has not run otherwise.
C2_HookOncePerChange ==
    (lastCall.op \in Setters \cup {"modify"}) =>
        LET k == lastCall.key
        IN  IF totalValue[k] # pre.prev[k]
            THEN ChangedHooks
                   = << <<"onAttributeChanged", k, pre.prev[k], totalValue[k]>> >>
            ELSE ChangedHooks = <<>>

\* an accepted write that changed a cell while the clamped total stayed
C2_Witness ==
    /\ lastCall.op \in Setters
    /\ lastCall.ret = TRUE
    /\ values # pre.values
    /\ totalValue = pre.totalValue
    /\ fired = <<>>

\* C3: loadData(exportData()) leaves the three cells of all five keys
\* unchanged.
C3_RoundTripKeepsCells ==
    (lastCall.op = "loadData" /\ lastCall.data = exportData(pre)) =>
        values = pre.values

\* C4: for every key, getValue is the clamp of the sum of the current cells,
\* and lies in [minValue, maxValue] when minValue <= maxValue.
C4_TotalIsClampedSum ==
    \A k \in Keys :
        /\ getValue(k) = clamp(values[k].baseValue + values[k].equipmentBonus
                                  + values[k].effectBonus,
                              config.minValue, config.maxValue)
        /\ (config.minValue <= config.maxValue) =>
              (getValue(k) >= config.minValue /\ getValue(k) <= config.maxValue)

\* after some calls, a key whose three cells are all nonzero and whose sum
\* exceeds maxValue
C4_Witness ==
    /\ nCalls > 0
    /\ config.minValue <= config.maxValue
    /\ \E k \in Keys :
          /\ values[k].baseValue > 0
          /\ values[k].equipmentBonus > 0
          /\ values[k].effectBonus > 0
          /\ values[k].baseValue + values[k].equipmentBonus
                + values[k].effectBonus > config.maxValue
          /\ getValue(k) = config.maxValue

\* C5: an accepted setEquipment(k, e) whose sum b + e + f lies within
\* [minValue, maxValue] and differs from the previous total t returns true,
\* makes getValue(k) equal b + e + f and runs onAttributeChanged exactly once,
\* with (k, t, b + e + f).
C5_SetEquipmentInRange ==
    (lastCall.op = "setEquipment" /\ validate(lastCall.key, lastCall.value)) =>
        LET k == lastCall.key
            t == pre.totalValue[k]
            sum == pre.values[k].baseValue + lastCall.value
                       + pre.values[k].effectBonus
        IN  (sum >= config.minValue /\ sum <= config.maxValue /\ sum # t) =>
                /\ lastCall.ret = TRUE
                /\ getValue(k) = sum
                /\ ChangedHooks = << <<"onAttributeChanged", k, t, sum>> >>

\* the documented scenario: vitality 10 in 0..100, setEquipment("vitality", 5)
C5_Witness ==
    /\ config.minValue = 0
    /\ config.maxValue = 100
    /\ lastCall.op = "setEquipment"
    /\ lastCall.key = "vitality"
    /\ lastCall.value = 5
    /\ lastCall.ret = TRUE
    /\ pre.values["vitality"].baseValue = 10
    /\ pre.totalValue["vitality"] = 10
    /\ getValue("vitality") = 15
    /\ fired = << <<"onAttributeChanged", "vitality", 10, 15>> >>

\* C6: once destroy() has been called, no later call runs onAttributeChanged
\* or persistState.
C6_NoHookAfterDestroy ==
    (observers = <<>>) => fired = <<>>

\* C7: loadData puts every field of every provided key through validate on
\* its own: a rejected field keeps its previous value, an accepted field is
\* written (the base value through setBase's clamp), whatever happens to the
\* other fields of that key and to the other keys.
C7_LoadDataPerField ==
    (lastCall.op = "loadData") =>
        \A k \in DOMAIN lastCall.data :
            \A f \in Fields :
                LET v == Coalesce(lastCall.data[k], f)
                IN  IF validate(k, v)
                    THEN values[k][f]
                           = (IF f = "baseValue"
                              THEN clamp(v, config.minValue, config.maxValue)
                              ELSE v)
                    ELSE values[k][f] = pre.values[k][f]

\* a load in which a field of a key is rejected before an accepted field of
\* the same key changes its cell, and a cell of another key changes too
C7_Witness ==
    /\ lastCall.op = "loadData"
    /\ \E k \in DOMAIN lastCall.data :
          /\ ~validate(k, Coalesce(lastCall.data[k], "equipmentBonus"))
          /\ validate(k, Coalesce(lastCall.data[k], "effectBonus"))
          /\ values[k].effectBonus # pre.values[k].effectBonus
          /\ values[k].equipmentBonus = pre.values[k].equipmentBonus
          /\ \E j \in DOMAIN lastCall.data \ {k} : values[j] # pre.values[j]

\* C8: with autoPersist, persistState runs exactly once for, and right after,
\* every onAttributeChanged; without it, persistState never runs.
C8_PersistFollowsHook ==
    IF config.autoPersist
    THEN /\ Len(fired) % 2 = 0
         /\ \A i \in 1..Len(fired) :
               IF i % 2 = 1
               THEN fired[i][1] = "onAttributeChanged"
                    /\ fired[i + 1] = <<"persistState">>
               ELSE fired[i] = <<"persistState">>
    ELSE PersistHooks = <<>>

\* with autoPersist, a call that changed two totals
C8_Witness ==
    /\ config.autoPersist
    /\ Len(ChangedHooks) = 2
    /\ Len(PersistHooks) = 2

\* without autoPersist, a call that changed a total
C8_WitnessOff ==
    /\ ~config.autoPersist
    /\ Len(ChangedHooks) > 0

\* C9 as stated: an accepted setter returns true and its cell then holds
\* exactly the supplied value.
C9_CellHoldsSuppliedValue ==
    (lastCall.op \in Setters /\ validate(lastCall.key, lastCall.value)) =>
        /\ lastCall.ret = TRUE
        /\ exportData([values |-> values])[lastCall.key][FieldOf(lastCall.op)]
              = lastCall.value

\* C9 amended: an accepted setter returns true; the cell of setEquipment and
\* setEffect then holds exactly the supplied value, the cell of setBase holds
\* clamp(value, minValue, maxValue), which is the supplied value whenever
\* minValue <= value <= maxValue.
C9_CellHoldsValueBaseClamped ==
    (lastCall.op \in Setters /\ validate(lastCall.key, lastCall.value)) =>
        LET cell == exportData([values |-> values])[lastCall.key][FieldOf(lastCall.op)]
            v == lastCall.value
        IN  /\ lastCall.ret = TRUE
            /\ (lastCall.op # "setBase") => cell = v
            /\ (lastCall.op = "setBase") =>
                  /\ cell = clamp(v, config.minValue, config.maxValue)
                  /\ (v >= config.minValue /\ v <= config.maxValue) => cell = v

\* an accepted setBase of a value above maxValue, stored clamped, on a key
\* whose equipment bonus was stored as supplied, above maxValue
C9_Witness ==
    /\ lastCall.op = "setBase"
    /\ lastCall.ret = TRUE
    /\ config.minValue <= config.maxValue
    /\ lastCall.value > config.maxValue
    /\ values[lastCall.key].baseValue = config.maxValue
    /\ pre.values[lastCall.key].baseValue # config.maxValue
    /\ values[lastCall.key].equipmentBonus > config.maxValue

\* C10: modify(k, delta) returns what setBase(k, b + delta) returns, and
\* leaves the cells, totals and hooks that setBase(k, b + delta) leaves, b
\* being the base value of k before the call; a rejected b + delta returns
\* false and leaves the base value at b.
C10_ModifyIsSetBase ==
    (lastCall.op = "modify") =>
        LET k == lastCall.key
            b == pre.values[k].baseValue
            r == setBase([values |-> pre.values, totalValue |-> pre.totalValue,
                          prev |-> pre.prev, fired |-> <<>>],
                         k, b + lastCall.value)
        IN  /\ lastCall.ret = r.ret
            /\ values = r.m.values
            /\ totalValue = r.m.totalValue
            /\ prev = r.m.prev
            /\ fired = r.m.fired
            /\ ~validate(k, b + lastCall.value) =>
                  (lastCall.ret = FALSE /\ values[k].baseValue = b)
            /\ validate(k, b + lastCall.value) =>
                  (lastCall.ret = TRUE
                   /\ values[k].baseValue
                         = clamp(b + lastCall.value, config.minValue, config.maxValue))

\* a modify that moved a base value lying under bonuses, so that base and
\* total differed before the call
C10_Witness ==
    /\ lastCall.op = "modify"
    /\ lastCall.ret = TRUE
    /\ pre.values[lastCall.key].baseValue # pre.totalValue[lastCall.key]
    /\ values[lastCall.key].baseValue # pre.values[lastCall.key].baseValue

\* the two clamp functions and the two key tests, by name
ClampFns == {"clampAttributeValue", "clamp"}

\* the clamp named fn, applied to three explicit arguments
ClampOf(fn, x, lo, hi) ==
    IF fn = "clamp" THEN clampCall(<<x, lo, hi>>)
    ELSE clampAttributeValue(<<x, lo, hi>>)

\* C14: isValidAttributeKey and isValidKey answer true for each of the five
\* keys and false for every other string.
C14_KeyTestIsMembership ==
    (utilCall.fn \in {"isValidAttributeKey", "isValidKey"}) =>
        utilCall.result
          = (utilCall.args[1]
               \in {"vitality", "strength", "agility", "intellect", "luck"})

\* the key test answering true on the last of the five keys
C14_Witness ==
    /\ utilCall.fn = "isValidAttributeKey"
    /\ utilCall.args = <<"luck">>
    /\ utilCall.result = TRUE

\* a near miss answered false
C14_WitnessReject ==
    /\ utilCall.fn = "isValidKey"
    /\ utilCall.args = <<"Vitality">>
    /\ utilCall.result = FALSE

\* C15: with lo <= hi, both clamp functions return a value in [lo, hi], and
\* clamping the result again returns the result.
C15_ClampInRangeIdempotent ==
    (utilCall.fn \in ClampFns /\ Len(utilCall.args) = 3) =>
        LET lo == utilCall.args[2]
            hi == utilCall.args[3]
            r == utilCall.result
        IN  (lo <= hi) =>
              /\ r >= lo
              /\ r <= hi
              /\ ClampOf(utilCall.fn, r, lo, hi) = r

\* a value above hi clamped by the compact clamp
C15_Witness ==
    /\ utilCall.fn = "clamp"
    /\ utilCall.args = <<1050, 2, 4>>
    /\ utilCall.result = 4

\* C16: with lo <= hi, clampAttributeValue returns hi when x > hi, lo when
\* x < lo, and x otherwise.
C16_ClampCases ==
    (utilCall.fn = "clampAttributeValue" /\ Len(utilCall.args) = 3) =>
        LET x == utilCall.args[1]
            lo == utilCall.args[2]
            hi == utilCall.args[3]
        IN  (lo <= hi) =>
              utilCall.result = (IF x > hi THEN hi ELSE IF x < lo THEN lo ELSE x)

\* the documented instance clampAttributeValue(1050, 0, 999) == 999
C16_Witness ==
    /\ utilCall.fn = "clampAttributeValue"
    /\ utilCall.args = <<1050, 0, 999>>
    /\ utilCall.result = 999

\* the documented instance clampAttributeValue(-5, 0, 999) == 0
C16_WitnessLow ==
    /\ utilCall.fn = "clampAttributeValue"
    /\ utilCall.args = <<-5, 0, 999>>
    /\ utilCall.result = 0

\* C17: calculateTotalAttributeValue and calculateTotal return the plain sum
\* of the three fields, however large or small.
C17_TotalIsPlainSum ==
    (utilCall.fn \in {"calculateTotalAttributeValue", "calculateTotal"}) =>
        LET v == utilCall.args[1]
        IN  utilCall.result = v.baseValue + v.equipmentBonus + v.effectBonus

\* a total above every clamp maximum of the program
C17_Witness ==
    /\ utilCall.fn = "calculateTotalAttributeValue"
    /\ utilCall.result = 15000

\* C19 as stated: called with a value only, both clamp functions limit the
\* value to [0, 999].
C19_OneArgumentClampTo999 ==
    (utilCall.fn \in ClampFns /\ Len(utilCall.args) = 1) =>
        LET x == utilCall.args[1]
        IN  utilCall.result = (IF x > 999 THEN 999 ELSE IF x < 0 THEN 0 ELSE x)

\* C19 amended: called with a value only, clampAttributeValue limits the value
\* to [0, 999] and the compact clamp limits it to [0, 9999].
C19_OneArgumentClampDefaults ==
    (utilCall.fn \in ClampFns /\ Len(utilCall.args) = 1) =>
        LET x == utilCall.args[1]
            hi == IF utilCall.fn = "clamp" THEN 9999 ELSE 999
        IN  utilCall.result = (IF x > hi THEN hi ELSE IF x < 0 THEN 0 ELSE x)

\* the compact clamp letting through a value between the two maxima
C19_Witness ==
    /\ utilCall.fn = "clamp"
    /\ utilCall.args = <<1050>>
    /\ utilCall.result = 1050

\* the entry of key in the state object at sref of heap h, by value
EntryOf(h, sref, key) ==
    LET e == h[h[sref][key]]
    IN  [meta |-> e.meta, values |-> h[e.values], totalValue |-> e.totalValue]

SumOf(v) == v.baseValue + v.equipmentBonus + v.effectBonus

FiveKeys == {"vitality", "strength", "agility", "intellect", "luck"}

\* C11: once created, and after any updates and reassignments, the caller's
\* state has exactly the five keys, and the totalValue of each entry is the
\* sum of the three fields of that entry's current values.
C11_StateTotalsAreSums ==
    (playerState # 0) =>
        /\ DOMAIN heap[playerState] = FiveKeys
        /\ \A k \in FiveKeys :
              /\ DOMAIN EntryOf(heap, playerState, k).values = Fields
              /\ EntryOf(heap, playerState, k).totalValue
                    = SumOf(EntryOf(heap, playerState, k).values)

\* a reassignment of an updated entry that changed a value and the total of
\* a key of a state made by createAttributesState
C11_Witness ==
    /\ utilCall.fn = "assign"
    /\ playerState # 0
    /\ LET k == utilCall.args[1]
       IN  /\ EntryOf(heap, playerState, k).values
                 # EntryOf(preHeap, playerState, k).values
           /\ EntryOf(heap, playerState, k).totalValue
                 # EntryOf(preHeap, playerState, k).totalValue
           /\ EntryOf(preHeap, playerState, k).totalValue = 14

\* C12: a call of updateAttributeEntry leaves the state it is given as it
\* was: every object that existed before the call is unchanged, so the entry
\* of every key has the values, totalValue and meta it had.
C12_UpdateLeavesStateArgument ==
    (utilCall.fn = "updateAttributeEntry") =>
        /\ \A r \in 1..Len(preHeap) : heap[r] = preHeap[r]
        /\ \A k \in FiveKeys :
              EntryOf(heap, playerState, k) = EntryOf(preHeap, playerState, k)

\* an update whose returned entry differs in values and total from the entry
\* the state still holds for that key
C12_Witness ==
    /\ utilCall.fn = "updateAttributeEntry"
    /\ LET k == utilCall.args[2]
           returned == heap[utilCall.result]
       IN  /\ heap[returned.values] # EntryOf(heap, playerState, k).values
           /\ returned.totalValue # EntryOf(heap, playerState, k).totalValue

\* C13: whatever the overrides (left out, empty, or partial values for some
\* keys), createAttributesState and createState return a state with exactly
\* the five keys, each entry's totalValue being the sum of its own values.
C13_CreatedStateIsComplete ==
    (utilCall.fn \in {"createAttributesState", "createState"}) =>
        LET st == utilCall.result
        IN  /\ DOMAIN heap[st] = FiveKeys
            /\ \A k \in FiveKeys :
                  /\ DOMAIN EntryOf(heap, st, k).values = Fields
                  /\ EntryOf(heap, st, k).totalValue
                        = SumOf(EntryOf(heap, st, k).values)
                  /\ EntryOf(heap, st, k).meta = k

\* the documented example: overrides for three keys, partial in each
C13_Witness ==
    /\ utilCall.fn = "createAttributesState"
    /\ utilCall.args # <<>>
    /\ DOMAIN utilCall.args[1] = {"vitality", "strength", "luck"}
    /\ EntryOf(heap, utilCall.result, "vitality").totalValue = 24
    /\ EntryOf(heap, utilCall.result, "strength").totalValue = 22
    /\ EntryOf(heap, utilCall.result, "luck").totalValue = 13
    /\ EntryOf(heap, utilCall.result, "agility").totalValue = 14

\* the compact variant on the same overrides
C13_WitnessCompact ==
    /\ utilCall.fn = "createState"
    /\ utilCall.args # <<>>
    /\ DOMAIN utilCall.args[1] = {"vitality", "strength", "luck"}
    /\ EntryOf(heap, utilCall.result, "strength").totalValue = 20
    /\ EntryOf(heap, utilCall.result, "agility").totalValue = 0

\* C18: createAttributeValues returns, field by field, the override's value
\* when the override supplies the field and otherwise 10, 2, 2; createValues
\* does the same with 0, 0, 0; and no call changes the default record.
C18_CreateValuesMergesDefaults ==
    /\ heap[DefaultRef] = [baseValue |-> 10, equipmentBonus |-> 2, effectBonus |-> 2]
    /\ (utilCall.fn \in {"createAttributeValues", "createValues"}) =>
          LET ov == IF utilCall.args = <<>> THEN NoData ELSE utilCall.args[1]
              dflt == IF utilCall.fn = "createValues"
                      THEN [baseValue |-> 0, equipmentBonus |-> 0, effectBonus |-> 0]
                      ELSE [baseValue |-> 10, equipmentBonus |-> 2, effectBonus |-> 2]
              got == heap[utilCall.result]
          IN  /\ DOMAIN got = Fields
              /\ \A f \in Fields :
                    got[f] = (IF f \in DOMAIN ov THEN ov[f] ELSE dflt[f])

\* the documented example: createAttributeValues({baseValue: 15,
\* equipmentBonus: 3}), called after an earlier call with other overrides
C18_Witness ==
    /\ utilCall.fn = "createAttributeValues"
    /\ utilCall.args = <<[baseValue |-> 15, equipmentBonus |-> 3]>>
    /\ heap[utilCall.result]
          = [baseValue |-> 15, equipmentBonus |-> 3, effectBonus |-> 2]
    /\ Len(preHeap) > 1

\* C20: loadData takes a mapping with fewer than five keys; every key the
\* mapping does not hold keeps its base value, equipment bonus, effect bonus
\* and derived total, and onAttributeChanged does not run for it.
C20_AbsentKeysUntouched ==
    (lastCall.op = "loadData") =>
        \A k \in Keys \ DOMAIN lastCall.data :
            /\ values[k] = pre.values[k]
            /\ totalValue[k] = pre.totalValue[k]
            /\ \A i \in 1..Len(ChangedHooks) : ChangedHooks[i][2] # k

\* a load of one key that changes that key and runs its hook, while a key
\* the mapping leaves out holds a nonzero cell that validate would let go
C20_Witness ==
    /\ lastCall.op = "loadData"
    /\ DOMAIN lastCall.data = {"strength"}
    /\ values["strength"] # pre.values["strength"]
    /\ ChangedHooks # <<>>
    /\ pre.values["vitality"].baseValue # 0
    /\ validate("vitality", 0)
    /\ clamp(0, config.minValue, config.maxValue) # pre.values["vitality"].baseValue

\* C21: updateAttributeEntry(state, k, partial) returns an entry whose values
\* hold, field by field, partial's value when partial supplies the field and
\* otherwise the value of state[k].values, whose totalValue is the sum of
\* those merged values, and whose meta is the meta of state[k].
C21_UpdateMergesPartial ==
    (utilCall.fn = "updateAttributeEntry") =>
        LET k == utilCall.args[2]
            partial == utilCall.args[3]
            old == EntryOf(preHeap, utilCall.args[1], k)
            got == heap[utilCall.result]
        IN  /\ DOMAIN heap[got.values] = Fields
            /\ \A f \in Fields :
                  heap[got.values][f]
                    = (IF f \in DOMAIN partial THEN partial[f] ELSE old.values[f])
            /\ got.totalValue
                  = heap[got.values].baseValue + heap[got.values].equipmentBonus
                      + heap[got.values].effectBonus
            /\ got.meta = old.meta

\* an update that supplies one field, on an entry whose other fields are not
\* the defaults, and changes the total
C21_Witness ==
    /\ utilCall.fn = "updateAttributeEntry"
    /\ DOMAIN utilCall.args[3] = {"equipmentBonus"}
    /\ LET old == EntryOf(preHeap, utilCall.args[1], utilCall.args[2])
           got == heap[utilCall.result]
       IN  /\ old.values.baseValue \notin {10, 0}
           /\ heap[got.values].baseValue = old.values.baseValue
           /\ heap[got.values].equipmentBonus # old.values.equipmentBonus
           /\ got.totalValue # old.totalValue

\* C22: a call of setBase, setEquipment or setEffect on key k changes at most
\* the addressed cell of k: the other two cells of k, and every cell and
\* derived total of the other four keys, are as before, and
\* onAttributeChanged runs for no key other than k.
C22_SetterTouchesOneCell ==
    (lastCall.op \in Setters) =>
        LET k == lastCall.key
            f == FieldOf(lastCall.op)
        IN  /\ \A g \in Fields \ {f} : values[k][g] = pre.values[k][g]
            /\ \A j \in Keys \ {k} :
                  /\ values[j] = pre.values[j]
                  /\ totalValue[j] = pre.totalValue[j]
            /\ \A i \in 1..Len(ChangedHooks) : ChangedHooks[i][2] = k

\* an accepted setEffect that changes its cell and the total of its key and
\* runs the hook, while another cell of that key and a cell of another key
\* hold nonzero values the new value differs from
C22_Witness ==
    /\ lastCall.op = "setEffect"
    /\ lastCall.ret
    /\ lastCall.key = "strength"
    /\ values["strength"].effectBonus # pre.values["strength"].effectBonus
    /\ totalValue["strength"] # pre.totalValue["strength"]
    /\ ChangedHooks # <<>>
    /\ pre.values["strength"].baseValue # 0
    /\ pre.values["vitality"].baseValue # 0
    /\ pre.values["vitality"].effectBonus # lastCall.value

\* the onAttributeChanged invocations of the last call for key k
HooksOf(k) == SelectSeq(ChangedHooks, LAMBDA e : e[2] = k)

\* the values the last call hands to the setters of key k, as <<field, value>>
WritesOf(k) ==
    IF lastCall.op = "loadData"
    THEN IF k \in DOMAIN lastCall.data
         THEN << <<"baseValue", Coalesce(lastCall.data[k], "baseValue")>>,
                 <<"equipmentBonus", Coalesce(lastCall.data[k], "equipmentBonus")>>,
                 <<"effectBonus", Coalesce(lastCall.data[k], "effectBonus")>> >>
         ELSE <<>>
    ELSE IF lastCall.op \in Setters /\ lastCall.key = k
    THEN << <<FieldOf(lastCall.op), lastCall.value>> >>
    ELSE IF lastCall.op = "modify" /\ lastCall.key = k
    THEN << <<"baseValue", pre.values[k].baseValue + lastCall.value>> >>
    ELSE <<>>

\* what getValue(k) returns after each of writes, starting from cells vals
RECURSIVE TotalsAfter(_, _, _)
TotalsAfter(k, vals, writes) ==
    IF writes = <<>>
    THEN <<>>
    ELSE LET f == Head(writes)[1]
             v == Head(writes)[2]
             stored == IF f = "baseValue"
                       THEN clamp(v, config.minValue, config.maxValue)
                       ELSE v
             nv == IF validate(k, v) THEN [vals EXCEPT ![f] = stored] ELSE vals
             total == clamp(nv.baseValue + nv.equipmentBonus + nv.effectBonus,
                            config.minValue, config.maxValue)
         IN  <<total>> \o TotalsAfter(k, nv, Tail(writes))

\* the elements of seq that differ from the one before, last coming first
RECURSIVE Changes(_, _)
Changes(seq, last) ==
    IF seq = <<>>
    THEN <<>>
    ELSE IF Head(seq) = last
    THEN Changes(Tail(seq), last)
    ELSE <<Head(seq)>> \o Changes(Tail(seq), Head(seq))

\* C23: every onAttributeChanged(key, old, new) has old # new and new equal
\* to what getValue(key) returns when the hook runs; the first notification
\* of a key has the key's total at construction as old, and every later one
\* has as old the new of the key's previous notification.
C23_HookChain ==
    /\ (nCalls = 0) =>
          \A k \in Keys :
              lastNew[k] = clamp(InitialOf(config, k), config.minValue,
                                 config.maxValue)
    /\ \A k \in Keys :
          LET hs == HooksOf(k)
          IN  /\ \A i \in 1..Len(hs) :
                    /\ hs[i][3] # hs[i][4]
                    /\ hs[i][3] = (IF i = 1 THEN pre.lastNew[k] ELSE hs[i - 1][4])
              /\ [i \in 1..Len(hs) |-> hs[i][4]]
                    = Changes(TotalsAfter(k, pre.values[k], WritesOf(k)),
                              pre.totalValue[k])
              /\ (hs # <<>>) => hs[Len(hs)][4] = getValue(k)

\* a load that notifies one key twice, after an earlier call that notified
\* the same key
C23_Witness ==
    /\ lastCall.op = "loadData"
    /\ \E k \in Keys :
          /\ Len(HooksOf(k)) >= 2
          /\ pre.lastNew[k] # clamp(InitialOf(config, k), config.minValue,
                                    config.maxValue)
          /\ HooksOf(k)[1][3] = pre.lastNew[k]

\* v lies in [config.minValue, config.maxValue]
InRange(v) == v >= config.minValue /\ v <= config.maxValue

\* the manager was built with minValue <= maxValue and every initial base
\* value inside the range
BuiltInRange ==
    /\ config.minValue <= config.maxValue
    /\ \A k \in Keys : InRange(InitialOf(config, k))

\* C24: in a manager built with minValue <= maxValue and all initial base
\* values in [minValue, maxValue], the base value cell of every key lies in
\* that range in every reachable state, whatever validate accepts; the
\* equipment and effect cells are bounded only by what validate lets pass:
\* under the range-checking validate they hold 0 or a value of the range.
C24_BaseStaysInRange ==
    BuiltInRange =>
        /\ \A k \in Keys : InRange(values[k].baseValue)
        /\ (policy = "simple") =>
              \A k \in Keys : \A g \in {"equipmentBonus", "effectBonus"} :
                  values[k][g] = 0 \/ InRange(values[k][g])

\* a base value above the range was accepted and the cell holds the upper
\* limit, in a manager that accepts every value
C24_Witness ==
    /\ BuiltInRange
    /\ policy = "acceptAll"
    /\ lastCall.op = "setBase"
    /\ lastCall.ret
    /\ lastCall.value > config.maxValue
    /\ values[lastCall.key].baseValue = config.maxValue
    /\ pre.values[lastCall.key].baseValue # config.maxValue

\* an equipment bonus above the range sits in its cell, in the same kind of
\* manager
C24_WitnessBonus ==
    /\ BuiltInRange
    /\ policy = "acceptAll"
    /\ \E k \in Keys :
          /\ values[k].equipmentBonus > config.maxValue
          /\ values[k].effectBonus < config.minValue
          /\ InRange(values[k].baseValue)

TypeOK ==
    /\ nCalls \in 0..MaxOps
    /\ policy \in Policies
    /\ DOMAIN values = Keys
    /\ DOMAIN totalValue = Keys
====
